---- MODULE Spec2Model ----
(***************************************************************************)
(* The interactive session of gpt-cli (src/src/main.rs): the prompt loop   *)
(* of main, the command interpreter parse_command, the context retention   *)
(* rule, the streaming loop and the token and price accounting.            *)
(*                                                                         *)
(* A text is a sequence of one-character strings.  The character "W"       *)
(* stands for a long block of text that the tokenizer splits into          *)
(* BlockTokens tokens; every other character is one token.  Prices are     *)
(* in units of 1/10000.  print! and println! are taken to succeed; the     *)
(* results main itself handles with `?` or unwrap can fail.                *)
(***************************************************************************)
EXTENDS Integers, Sequences, FiniteSets, TLC

VARIABLES
    pc,             \* where main is: "start", "prompt", "streaming", "exited"
    state,          \* AppState: model, max_tokens, auto_pipe, context
    input,          \* main's local `input` of the turn in flight
    input_tokens,   \* main's local `input_tokens`
    request,        \* the request handed to create_stream, NoRequest when none
    stream,         \* main's local `stream`: the fragments it has yet to yield
    response_save,  \* main's local `response_save`
    summary,        \* the usage line the step just taken printed
    exit_cause,     \* why the process ended, "none" while it runs
    received,       \* history: the fragments the stream yielded in this turn
    out,            \* history: what the streaming loop wrote in this turn
    hist,           \* history: every turn pushed to the context in the session
    turn,           \* history: the line and the auto_pipe of the latest turn
    turns,          \* history: number of turns started
    read_line,      \* history: the line read at the latest prompt, when traced
    price_f64       \* main's local `price` as an f64, where the accounting is explored

vars == <<pc, state, input, input_tokens, request, stream, response_save,
          summary, exit_cause, received, out, hist, turn, turns, read_line,
          price_f64>>

----------------------------------------------------------------------------
(* Bounds of the exploration. *)

MaxTurns == 3            \* turns of a session explored by Spec

MaxTurnFragments == 1    \* fragments of one stream explored by Spec

MaxStreamTurns == 1      \* turns of a session explored by SpecStream

MaxFragments == 3        \* fragments of one stream explored by SpecStream

MaxCommandTurns == 2     \* turns of a session explored by SpecCommands

MaxContextLen == 2       \* turns of a context explored by SpecAccounting

MaxPart == 2             \* token counts a price is split into

BlockTokens == 40000

(* Program constants. *)

DefaultMaxTokens == 512

U16 == 65536

PRICE_4 == <<30, 60>>          \* [3/1000, 6/1000] in units of 1/10000

PRICE_4T == <<10, 30>>         \* [1/1000, 3/1000] in units of 1/10000

PRICE_3 == <<1, 2>>            \* [1/10000, 2/10000] in units of 1/10000

UnknownPrice == 999990000      \* 99999.0 in units of 1/10000

Mantissa == 53                 \* significant bits of an f64

LimbBits == 15                 \* bits of a limb of the f64 arithmetic

DivBits == 75                  \* binary places a quotient is computed to

----------------------------------------------------------------------------
(* ContextType and the values that stand for "nothing". *)

User(msg) == [role |-> "User", text |-> msg]

Assistant(msg) == [role |-> "Assistant", text |-> msg]

NoRequest == [model |-> <<>>, max_tokens |-> 0, messages |-> <<>>]

NoSummary == [prompt |-> 0, completion |-> 0, total |-> 0, price |-> 0]

GPT35 == <<"g", "p", "t", "-", "3", ".", "5", "-", "t", "u", "r", "b", "o">>

GPT4 == <<"g", "p", "t", "-", "4">>

GPT4T == <<"g", "p", "t", "-", "4", " ", "t", "u", "r", "b", "o">>

----------------------------------------------------------------------------
(* String operations of the standard library, as the code uses them. *)

IsWhitespace(c) == c \in {" ", "\n", "\t"}

RECURSIVE trim_start(_)
trim_start(s) ==
    IF s # <<>> /\ IsWhitespace(Head(s)) THEN trim_start(Tail(s)) ELSE s

RECURSIVE trim_end(_)
trim_end(s) ==
    IF s # <<>> /\ IsWhitespace(s[Len(s)])
    THEN trim_end(SubSeq(s, 1, Len(s) - 1))
    ELSE s

trim(s) == trim_end(trim_start(s))

starts_with(s, c) == s # <<>> /\ Head(s) = c

UpperCase == <<"A", "B", "C", "D", "E", "F", "G", "H", "I", "J", "K", "L", "M",
               "N", "O", "P", "Q", "R", "S", "T", "U", "V", "W", "X", "Y", "Z">>

LowerCase == <<"a", "b", "c", "d", "e", "f", "g", "h", "i", "j", "k", "l", "m",
               "n", "o", "p", "q", "r", "s", "t", "u", "v", "w", "x", "y", "z">>

LowerOf ==
    [c \in {UpperCase[i] : i \in 1..26} |->
        LowerCase[CHOOSE i \in 1..26 : UpperCase[i] = c]]

LowerChar(c) == IF c \in DOMAIN LowerOf THEN LowerOf[c] ELSE c

(* A lowering that leaves every letter as it is. *)
keep_case(s) == s

to_lowercase(s) == [i \in 1..Len(s) |-> LowerChar(s[i])]

(* The first word of s, s having no leading whitespace. *)
RECURSIVE FirstWord(_)
FirstWord(s) ==
    IF s = <<>> \/ IsWhitespace(Head(s))
    THEN <<>>
    ELSE <<Head(s)>> \o FirstWord(Tail(s))

RECURSIVE split_whitespace(_)
split_whitespace(s) ==
    LET t == trim_start(s)
        w == FirstWord(t)
    IN  IF t = <<>>
        THEN <<>>
        ELSE <<w>> \o split_whitespace(SubSeq(t, Len(w) + 1, Len(t)))

(* words.collect::<String>(): the words joined with nothing between them. *)
RECURSIVE collect(_)
collect(words) ==
    IF words = <<>> THEN <<>> ELSE Head(words) \o collect(Tail(words))

----------------------------------------------------------------------------
(* parse_command. *)

CmdQ == <<":", "q">>

CmdQuit == <<":", "q", "u", "i", "t">>

CmdC == <<":", "c">>

CmdContext == <<":", "c", "o", "n", "t", "e", "x", "t">>

CmdM == <<":", "m">>

CmdModel == <<":", "m", "o", "d", "e", "l">>

CmdH == <<":", "h">>

CmdHelp == <<":", "h", "e", "l", "p">>

(* A parse_command whose context command also starts a fresh context. *)
parse_command_clearing(command, st) ==
    LET lowered == to_lowercase(trim(command))
        cmd == Head(split_whitespace(lowered))
    IN  IF cmd = CmdQ \/ cmd = CmdQuit
        THEN [state |-> st, exit |-> TRUE, msg |-> "none"]
        ELSE IF cmd = CmdC \/ cmd = CmdContext
        THEN [state |-> [st EXCEPT !.auto_pipe = ~st.auto_pipe, !.context = <<>>],
              exit |-> FALSE, msg |-> "carried"]
        ELSE [state |-> st, exit |-> FALSE, msg |-> "unknown command"]

(* A parse_command whose context command switches the carrying on and    *)
(* never off.                                                             *)
parse_command_switch_on(command, st) ==
    LET lowered == to_lowercase(trim(command))
        words == split_whitespace(lowered)
        cmd == Head(words)
        args == trim(collect(Tail(words)))
    IN  IF cmd = CmdQ \/ cmd = CmdQuit
        THEN [state |-> st, exit |-> TRUE, msg |-> "none"]
        ELSE IF cmd = CmdC \/ cmd = CmdContext
        THEN [state |-> [st EXCEPT !.auto_pipe = TRUE],
              exit |-> FALSE, msg |-> "carried"]
        ELSE IF cmd = CmdM \/ cmd = CmdModel
        THEN IF args = <<"3">>
             THEN [state |-> [st EXCEPT !.model = GPT35],
                   exit |-> FALSE, msg |-> "swapped"]
             ELSE IF args = <<"4">>
             THEN [state |-> [st EXCEPT !.model = GPT4],
                   exit |-> FALSE, msg |-> "swapped"]
             ELSE IF args = <<"4", "t">>
             THEN [state |-> [st EXCEPT !.model = GPT4T],
                   exit |-> FALSE, msg |-> "swapped"]
             ELSE [state |-> st, exit |-> FALSE, msg |-> "unknown model"]
        ELSE IF cmd = CmdH \/ cmd = CmdHelp
        THEN [state |-> st, exit |-> FALSE, msg |-> "help"]
        ELSE [state |-> st, exit |-> FALSE, msg |-> "unknown command"]

(* A parse_command that falls back to the default model on an argument    *)
(* that is no model code and gives up on a name that is no command.       *)
parse_command_strict(command, st) ==
    LET lowered == to_lowercase(trim(command))
        words == split_whitespace(lowered)
        cmd == Head(words)
        args == trim(collect(Tail(words)))
    IN  IF cmd = CmdQ \/ cmd = CmdQuit
        THEN [state |-> st, exit |-> TRUE, msg |-> "none"]
        ELSE IF cmd = CmdC \/ cmd = CmdContext
        THEN [state |-> [st EXCEPT !.auto_pipe = ~st.auto_pipe],
              exit |-> FALSE, msg |-> "carried"]
        ELSE IF cmd = CmdM \/ cmd = CmdModel
        THEN IF args = <<"4">>
             THEN [state |-> [st EXCEPT !.model = GPT4],
                   exit |-> FALSE, msg |-> "swapped"]
             ELSE IF args = <<"4", "t">>
             THEN [state |-> [st EXCEPT !.model = GPT4T],
                   exit |-> FALSE, msg |-> "swapped"]
             ELSE [state |-> [st EXCEPT !.model = GPT35],
                   exit |-> FALSE, msg |-> "swapped"]
        ELSE IF cmd = CmdH \/ cmd = CmdHelp
        THEN [state |-> st, exit |-> FALSE, msg |-> "help"]
        ELSE [state |-> st, exit |-> TRUE, msg |-> "unknown command"]

(* A parse_command that takes any argument of the model command for the   *)
(* name of a model.                                                       *)
parse_command_any_model(command, st) ==
    LET lowered == to_lowercase(trim(command))
        words == split_whitespace(lowered)
        cmd == Head(words)
        args == trim(collect(Tail(words)))
    IN  IF cmd = CmdQ \/ cmd = CmdQuit
        THEN [state |-> st, exit |-> TRUE, msg |-> "none"]
        ELSE IF cmd = CmdC \/ cmd = CmdContext
        THEN [state |-> [st EXCEPT !.auto_pipe = ~st.auto_pipe],
              exit |-> FALSE,
              msg |-> IF ~st.auto_pipe THEN "carried" ELSE "not carried"]
        ELSE IF cmd = CmdM \/ cmd = CmdModel
        THEN IF args = <<"3">>
             THEN [state |-> [st EXCEPT !.model = GPT35],
                   exit |-> FALSE, msg |-> "swapped"]
             ELSE IF args = <<"4", "t">>
             THEN [state |-> [st EXCEPT !.model = GPT4T],
                   exit |-> FALSE, msg |-> "swapped"]
             ELSE [state |-> [st EXCEPT !.model = <<"g", "p", "t", "-">> \o args],
                   exit |-> FALSE, msg |-> "swapped"]
        ELSE IF cmd = CmdH \/ cmd = CmdHelp
        THEN [state |-> st, exit |-> FALSE, msg |-> "help"]
        ELSE [state |-> st, exit |-> FALSE, msg |-> "unknown command"]

(* The result is the AppState parse_command leaves, whether it called      *)
(* process::exit, and the message it printed.                              *)
parse_command(command, st) ==
    LET lowered == to_lowercase(trim(command))
        words == split_whitespace(lowered)
        cmd == Head(words)
        args == trim(collect(Tail(words)))
    IN  IF cmd = CmdQ \/ cmd = CmdQuit
        THEN [state |-> st, exit |-> TRUE, msg |-> "none"]
        ELSE IF cmd = CmdC \/ cmd = CmdContext
        THEN [state |-> [st EXCEPT !.auto_pipe = ~st.auto_pipe],
              exit |-> FALSE,
              msg |-> IF ~st.auto_pipe THEN "carried" ELSE "not carried"]
        ELSE IF cmd = CmdM \/ cmd = CmdModel
        THEN IF args = <<"3">>
             THEN [state |-> [st EXCEPT !.model = GPT35],
                   exit |-> FALSE, msg |-> "swapped"]
             ELSE IF args = <<"4">>
             THEN [state |-> [st EXCEPT !.model = GPT4],
                   exit |-> FALSE, msg |-> "swapped"]
             ELSE IF args = <<"4", "t">>
             THEN [state |-> [st EXCEPT !.model = GPT4T],
                   exit |-> FALSE, msg |-> "swapped"]
             ELSE [state |-> st, exit |-> FALSE, msg |-> "unknown model"]
        ELSE IF cmd = CmdH \/ cmd = CmdHelp
        THEN [state |-> st, exit |-> FALSE, msg |-> "help"]
        ELSE [state |-> st, exit |-> FALSE, msg |-> "unknown command"]

----------------------------------------------------------------------------
(* Token and price accounting. *)

TokenWeight(c) == IF c = "W" THEN BlockTokens ELSE 1

(* The number of tokens split_by_token yields for a text. *)
RECURSIVE split_by_token(_)
split_by_token(text) ==
    IF text = <<>> THEN 0 ELSE TokenWeight(Head(text)) + split_by_token(Tail(text))

(* tokens.len() as u16 *)
count_tokens(text) == split_by_token(text) % U16

RECURSIVE SumTokens(_)
SumTokens(context) ==
    IF context = <<>>
    THEN 0
    ELSE count_tokens(Head(context).text) + SumTokens(Tail(context))

(* `sum` is a u16: an addition that passes 65535 panics in a build with    *)
(* overflow checks and wraps in one without.                               *)
count_tokens_ctx(context) ==
    [sum |-> SumTokens(context) % U16, overflow |-> SumTokens(context) >= U16]

calc_price(inp, outp, st) ==
    IF st.model = GPT35 THEN inp * PRICE_3[1] + outp * PRICE_3[2]
    ELSE IF st.model = GPT4 THEN inp * PRICE_4[1] + outp * PRICE_4[2]
    ELSE IF st.model = GPT4T THEN inp * PRICE_4T[1] + outp * PRICE_4T[2]
    ELSE UnknownPrice

----------------------------------------------------------------------------
(* IEEE 754 binary64 arithmetic on the values calc_price meets: positive, *)
(* normal, rounded to nearest with ties to even.  A natural number is a    *)
(* sequence of limbs of LimbBits bits, the lowest first; an f64 is the     *)
(* natural m, zero or odd, times 2^e.                                      *)

Limb == 2 ^ LimbBits

RECURSIVE Limbs(_)
Limbs(n) == IF n = 0 THEN <<>> ELSE <<n % Limb>> \o Limbs(n \div Limb)

RECURSIVE ToInt(_)
ToInt(a) == IF a = <<>> THEN 0 ELSE Head(a) + Limb * ToInt(Tail(a))

RECURSIVE StripHigh(_)
StripHigh(a) ==
    IF a # <<>> /\ a[Len(a)] = 0 THEN StripHigh(SubSeq(a, 1, Len(a) - 1)) ELSE a

RECURSIVE LAdd(_, _, _)
LAdd(a, b, carry) ==
    IF a = <<>> /\ b = <<>>
    THEN IF carry = 0 THEN <<>> ELSE <<carry>>
    ELSE LET t == (IF a = <<>> THEN 0 ELSE Head(a))
                      + (IF b = <<>> THEN 0 ELSE Head(b)) + carry
         IN  <<t % Limb>> \o LAdd(IF a = <<>> THEN <<>> ELSE Tail(a),
                                  IF b = <<>> THEN <<>> ELSE Tail(b),
                                  t \div Limb)

(* a times n + carry, for n and carry below 2^16. *)
RECURSIVE LScale(_, _, _)
LScale(a, n, carry) ==
    IF a = <<>>
    THEN Limbs(carry)
    ELSE LET t == Head(a) * n + carry
         IN  <<t % Limb>> \o LScale(Tail(a), n, t \div Limb)

Bit(a, j) ==
    LET i == j \div LimbBits + 1
    IN  IF i > Len(a) THEN 0 ELSE (a[i] \div 2 ^ (j % LimbBits)) % 2

BitLen(a) ==
    IF a = <<>>
    THEN 0
    ELSE LimbBits * (Len(a) - 1)
             + (CHOOSE k \in 1..LimbBits :
                    2 ^ (k - 1) <= a[Len(a)] /\ a[Len(a)] < 2 ^ k)

ShiftLeft(a, k) ==
    IF a = <<>>
    THEN <<>>
    ELSE [i \in 1..(k \div LimbBits) |-> 0] \o LScale(a, 2 ^ (k % LimbBits), 0)

ShiftRight(a, k) ==
    LET q == k \div LimbBits
        r == k % LimbBits
    IN  IF Len(a) <= q
        THEN <<>>
        ELSE StripHigh(
                 [i \in 1..(Len(a) - q) |->
                     a[i + q] \div 2 ^ r
                         + (IF i + q < Len(a)
                            THEN (a[i + q + 1] % 2 ^ r) * 2 ^ (LimbBits - r)
                            ELSE 0)])

(* a / 2^k rounded to the nearest natural, ties to even. *)
RoundShift(a, k) ==
    LET up == /\ Bit(a, k - 1) = 1
              /\ Bit(a, k) = 1 \/ \E i \in 0..(k - 2) : Bit(a, i) = 1
    IN  IF up THEN LAdd(ShiftRight(a, k), <<1>>, 0) ELSE ShiftRight(a, k)

Normal(m, e) ==
    IF m = <<>>
    THEN [m |-> <<>>, e |-> 0]
    ELSE LET z == CHOOSE j \in 0..(BitLen(m) - 1) :
                      Bit(m, j) = 1 /\ \A i \in 0..(j - 1) : Bit(m, i) = 0
         IN  [m |-> ShiftRight(m, z), e |-> e + z]

(* The f64 nearest to m * 2^e. *)
Round(m, e) ==
    LET a == StripHigh(m)
        k == BitLen(a) - Mantissa
    IN  IF k <= 0 THEN Normal(a, e) ELSE Normal(RoundShift(a, k), e + k)

RECURSIVE LDiv(_, _, _, _)
LDiv(a, i, d, rem) ==
    IF i = 0
    THEN [q |-> <<>>, r |-> rem]
    ELSE LET t == rem * Limb + a[i]
             rest == LDiv(a, i - 1, d, t % d)
         IN  [q |-> Append(rest.q, t \div d), r |-> rest.r]

(* `inp as f64`, exact for a u16. *)
f64_from(n) == Normal(Limbs(n), 0)

(* n. / d. for integer literals: the quotient to DivBits binary places,   *)
(* with a last bit that tells whether anything is left, rounded.          *)
f64_div(n, d) ==
    LET num == ShiftLeft(Limbs(n), DivBits)
        res == LDiv(num, Len(num), d, 0)
    IN  Round(LScale(res.q, 2, IF res.r = 0 THEN 0 ELSE 1), 0 - DivBits - 1)

(* x * y, x a whole number below 2^16. *)
f64_mul(x, y) == Round(LScale(y.m, ToInt(x.m), 0), x.e + y.e)

f64_add(x, y) ==
    IF x.m = <<>> THEN y
    ELSE IF y.m = <<>> THEN x
    ELSE LET e == IF x.e < y.e THEN x.e ELSE y.e
         IN  Round(LAdd(ShiftLeft(x.m, x.e - e), ShiftLeft(y.m, y.e - e), 0), e)

(* {:.5}: the decimal with five places nearest to x, in units of 1/100000. *)
Decimals5(x) ==
    LET n == LScale(LScale(x.m, 1000, 0), 100, 0)
    IN  IF x.e >= 0
        THEN ToInt(ShiftLeft(n, x.e))
        ELSE ToInt(RoundShift(n, 0 - x.e))

F64Zero == [m |-> <<>>, e |-> 0]

PRICE_4_f64 == <<f64_div(3, 1000), f64_div(6, 1000)>>

PRICE_4T_f64 == <<f64_div(1, 1000), f64_div(3, 1000)>>

PRICE_3_f64 == <<f64_div(1, 10000), f64_div(2, 10000)>>

(* A calc_price that prices gpt-4 turbo at the rates of gpt-4. *)
calc_price_f64_one_rate(inp, outp, st) ==
    IF st.model = GPT35
    THEN f64_add(f64_mul(f64_from(inp), PRICE_3_f64[1]),
                 f64_mul(f64_from(outp), PRICE_3_f64[2]))
    ELSE f64_add(f64_mul(f64_from(inp), PRICE_4_f64[1]),
                 f64_mul(f64_from(outp), PRICE_4_f64[2]))

(* Lines 222-231 in f64, bit for bit; calc_price above is this value as   *)
(* line 116 prints it with {:.5}, in units of 1/10000.                    *)
calc_price_f64(inp, outp, st) ==
    IF st.model = GPT35
    THEN f64_add(f64_mul(f64_from(inp), PRICE_3_f64[1]),
                 f64_mul(f64_from(outp), PRICE_3_f64[2]))
    ELSE IF st.model = GPT4
    THEN f64_add(f64_mul(f64_from(inp), PRICE_4_f64[1]),
                 f64_mul(f64_from(outp), PRICE_4_f64[2]))
    ELSE IF st.model = GPT4T
    THEN f64_add(f64_mul(f64_from(inp), PRICE_4T_f64[1]),
                 f64_mul(f64_from(outp), PRICE_4T_f64[2]))
    ELSE f64_from(99999)

----------------------------------------------------------------------------
RECURSIVE Distinct(_)
Distinct(s) ==
    IF s = <<>>
    THEN <<>>
    ELSE LET n == Len(s)
             rest == Distinct(SubSeq(s, 1, n - 1))
         IN  IF \E j \in 1..(n - 1) : s[j] = s[n] THEN rest ELSE Append(rest, s[n])

(* A conversion that sends a repeated turn once. *)
convert_context_dedup(context) ==
    LET turns_once == Distinct(context)
    IN  [i \in 1..Len(turns_once) |->
            [role |-> IF turns_once[i].role = "User" THEN "user" ELSE "assistant",
             content |-> turns_once[i].text]]

(* Lines 180-201: one message per turn, in order. *)
convert_context(context) ==
    [i \in 1..Len(context) |->
        [role |-> IF context[i].role = "User" THEN "user" ELSE "assistant",
         content |-> context[i].text]]

----------------------------------------------------------------------------
(* The retention rule of main and the per-fragment step of its stream loop. *)

(* A retention rule that never clears the context. *)
push_input_keeping(st, inp) ==
    IF starts_with(inp, "|")
    THEN [context |-> Append(st.context, User(Tail(inp))), input |-> Tail(inp)]
    ELSE [context |-> Append(st.context, User(inp)), input |-> inp]

(* A retention rule that does not look at auto_pipe. *)
push_input_no_carry(st, inp) ==
    IF ~starts_with(inp, "|")
    THEN [context |-> <<User(inp)>>, input |-> inp]
    ELSE [context |-> Append(st.context, User(Tail(inp))), input |-> Tail(inp)]

(* A retention rule that keeps the context for a marked line but leaves   *)
(* the marker in the text.                                                *)
push_input_unstripped(st, inp) ==
    IF ~starts_with(inp, "|") /\ ~st.auto_pipe
    THEN [context |-> <<User(inp)>>, input |-> inp]
    ELSE [context |-> Append(st.context, User(inp)), input |-> inp]

(* Lines 72-77: the context and the input after the new User turn is pushed. *)
push_input(st, inp) ==
    IF ~starts_with(inp, "|") /\ ~st.auto_pipe
    THEN [context |-> <<User(inp)>>, input |-> inp]
    ELSE IF starts_with(inp, "|")
    THEN [context |-> Append(st.context, User(Tail(inp))), input |-> Tail(inp)]
    ELSE [context |-> Append(st.context, User(inp)), input |-> inp]

Content(text) == [some |-> TRUE, text |-> text]

NoContent == [some |-> FALSE, text |-> <<>>]

OkFragment(choices) == [ok |-> TRUE, choices |-> choices]

ErrFragment == [ok |-> FALSE, choices |-> <<>>]

(* response_save after the fragment: push_str for every choice with content. *)
RECURSIVE push_contents(_, _)
push_contents(save, choices) ==
    IF choices = <<>>
    THEN save
    ELSE push_contents(
             IF Head(choices).some THEN save \o Head(choices).text ELSE save,
             Tail(choices))

(* An accumulator that an error fragment resets. *)
accumulate_reset_on_error(save, frag) ==
    IF frag.ok THEN push_contents(save, frag.choices) ELSE <<>>

accumulate(save, frag) ==
    IF frag.ok THEN push_contents(save, frag.choices) ELSE save

ContentItem(text) == [kind |-> "content", text |-> text]

ErrorItem == [kind |-> "error", text |-> <<>>]

RECURSIVE write_contents(_, _)
write_contents(written, choices) ==
    IF choices = <<>>
    THEN written
    ELSE write_contents(
             IF Head(choices).some
             THEN Append(written, ContentItem(Head(choices).text))
             ELSE written,
             Tail(choices))

(* A writer that puts the error annotation before what is already there. *)
write_fragment_error_first(written, frag) ==
    IF frag.ok
    THEN write_contents(written, frag.choices)
    ELSE <<ErrorItem>> \o written

(* What is on the terminal after the fragment: write! per content, writeln! *)
(* of the annotation for an error.                                          *)
write_fragment(written, frag) ==
    IF frag.ok
    THEN write_contents(written, frag.choices)
    ELSE Append(written, ErrorItem)

----------------------------------------------------------------------------
(* What the environment can supply. *)

PlainLines ==
    { <<>>,
      <<" ", "\n">>,
      <<"a", "\n">>,
      <<" ", "b", " ", "\n">>,
      <<"|", "a", "\n">> }

CommandLines ==
    { <<":", "q", "\n">>,
      <<":", "c", "\n">>,
      <<":", "C", "o", "n", "t", "e", "x", "t", "\n">>,
      <<":", "m", " ", "3", "\n">>,
      <<":", "M", "O", "D", "E", "L", " ", "4", "\n">>,
      <<":", "m", " ", "4", " ", "T", "\n">>,
      <<":", "x", "\n">> }

Lines == PlainLines \cup CommandLines

StreamLines ==
    { <<"\n">>,
      <<"a", "\n">>,
      <<"W", "\n">>,
      <<"|", "W", "\n">>,
      <<"|", "\n">>,
      <<":", "c", "\n">>,
      <<":", "h", "\n">>,
      <<":", "Q", "U", "I", "T", " ", "n", "o", "w", "\n">> }

UpperChar(c) ==
    IF \E i \in 1..26 : LowerCase[i] = c
    THEN UpperCase[CHOOSE i \in 1..26 : LowerCase[i] = c]
    ELSE c

to_uppercase(s) == [i \in 1..Len(s) |-> UpperChar(s[i])]

(* Spellings of a lower-case command name: as it is, in capitals, and with *)
(* only its first letter a capital.                                        *)
Spellings(name) ==
    { name,
      to_uppercase(name),
      [i \in 1..Len(name) |-> IF i = 2 THEN UpperChar(name[i]) ELSE name[i]] }

(* The line the user types for a command name and an argument. *)
SpelledLine(name, arg) ==
    name \o (IF arg = <<>> THEN <<>> ELSE <<" ">> \o arg) \o <<"\n">>

(* Every spelling of a command, by its alias or its long name, with every  *)
(* one of the arguments.                                                   *)
SpelledLines(alias, long, args) ==
    {SpelledLine(name, arg) : name \in Spellings(alias) \cup Spellings(long),
                              arg \in args}

ModelCodes == {<<"3">>, <<"4">>, <<"4", "t">>}

(* Arguments of the model command that are no model code. *)
NoModelCodes == {<<>>, <<"5">>}

ModelArgs == ModelCodes \cup {<<"4", "T">>} \cup NoModelCodes

QuitLines == SpelledLines(CmdQ, CmdQuit, {<<>>})

ContextLines == SpelledLines(CmdC, CmdContext, {<<>>})

ModelLines == SpelledLines(CmdM, CmdModel, ModelArgs)

HelpLines == SpelledLines(CmdH, CmdHelp, {<<>>})

(* Lines that start with the command marker and name no command. *)
UnknownLines ==
    { <<":", "\n">>,
      <<":", "x", "\n">>,
      <<":", "m", "4", "\n">> }

BlankLines == { <<"\n">>, <<" ", "\t", "\n">> }

SpelledCommands ==
    QuitLines \cup ContextLines \cup ModelLines \cup HelpLines \cup UnknownLines

PromptLines == SpelledCommands \cup BlankLines \cup { <<"a", "\n">> }

Hel == OkFragment(<<Content(<<"H", "e", "l">>)>>)

Lo == OkFragment(<<NoContent, Content(<<"l">>), Content(<<"o">>)>>)

Fragments == {Hel, Lo, ErrFragment}

SessionFragments == {Hel}

IOResults == {"ok", "write_err", "flush_err"}

SeqsUpTo(S, n) == UNION {[1..k -> S] : k \in 0..n}

(* What create_stream may return: an error, or a stream of at most n       *)
(* fragments.                                                              *)
CreateResults(frags, n) ==
    {[ok |-> FALSE, stream |-> <<>>]}
        \cup {[ok |-> TRUE, stream |-> s] : s \in SeqsUpTo(frags, n)}

----------------------------------------------------------------------------
(* main. *)

InitState ==
    [model |-> GPT35, max_tokens |-> DefaultMaxTokens,
     auto_pipe |-> FALSE, context |-> <<>>]

NoTurn == [line |-> <<>>, carry |-> FALSE]

Init ==
    /\ pc = "start"
    /\ state = InitState
    /\ input = <<>>
    /\ input_tokens = 0
    /\ request = NoRequest
    /\ stream = <<>>
    /\ response_save = <<>>
    /\ summary = NoSummary
    /\ exit_cause = "none"
    /\ received = <<>>
    /\ out = <<>>
    /\ hist = <<>>
    /\ turn = NoTurn
    /\ turns = 0
    /\ read_line = <<>>
    /\ price_f64 = F64Zero

(* The process ends: its memory is gone, only the cause is kept. *)
Exit(cause) ==
    /\ pc' = "exited"
    /\ exit_cause' = cause
    /\ state' = InitState
    /\ input' = <<>>
    /\ input_tokens' = 0
    /\ request' = NoRequest
    /\ stream' = <<>>
    /\ response_save' = <<>>
    /\ summary' = NoSummary
    /\ received' = <<>>
    /\ out' = <<>>
    /\ hist' = <<>>
    /\ turn' = NoTurn
    /\ turns' = 0

(* Lines 42-54: the credential lookup and the construction of the state. *)
Startup(key_set) ==
    /\ pc = "start"
    /\ IF key_set
       THEN /\ pc' = "prompt"
            /\ UNCHANGED <<state, input, input_tokens, request, stream,
                           response_save, summary, exit_cause, received, out,
                           hist, turn, turns>>
       ELSE Exit("no_key")

(* Lines 58 and 61: flush()? or read_line()? returns the error from main. *)
PromptIOError ==
    /\ pc = "prompt"
    /\ Exit("io_error")

(* A loop that starts a fresh context on a line that is empty once trimmed. *)
EmptyInput_clearing(line) ==
    /\ pc = "prompt"
    /\ trim(line) = <<>>
    /\ summary' = NoSummary
    /\ state' = [state EXCEPT !.context = <<>>]
    /\ UNCHANGED <<pc, input, input_tokens, request, stream,
                   response_save, exit_cause, received, out, hist, turn, turns>>

(* Lines 57-66: a line that is empty once trimmed. *)
EmptyInput(line) ==
    /\ pc = "prompt"
    /\ trim(line) = <<>>
    /\ summary' = NoSummary
    /\ UNCHANGED <<pc, state, input, input_tokens, request, stream,
                   response_save, exit_cause, received, out, hist, turn, turns>>

(* A loop that also takes a command line while a stream is open. *)
Command_while_streaming(line) ==
    /\ pc \in {"prompt", "streaming"}
    /\ trim(line) # <<>>
    /\ starts_with(trim(line), ":")
    /\ LET r == parse_command(trim(line), state)
       IN  IF r.exit
           THEN Exit("quit")
           ELSE /\ state' = r.state
                /\ summary' = NoSummary
                /\ UNCHANGED <<pc, input, input_tokens, request, stream,
                               response_save, exit_cause, received, out, hist,
                               turn, turns>>

(* Lines 67-70: a command line. *)
Command(line) ==
    /\ pc = "prompt"
    /\ trim(line) # <<>>
    /\ starts_with(trim(line), ":")
    /\ LET r == parse_command(trim(line), state)
       IN  IF r.exit
           THEN Exit("quit")
           ELSE /\ state' = r.state
                /\ summary' = NoSummary
                /\ UNCHANGED <<pc, input, input_tokens, request, stream,
                               response_save, exit_cause, received, out, hist,
                               turn, turns>>

(* Lines 71-92: a turn, up to the stream being open.  overflow_checks is   *)
(* the build's choice for integer overflow, created the capability's       *)
(* answer to create_stream; build() has its messages and cannot fail.      *)
TurnStart(line, overflow_checks, created) ==
    /\ pc = "prompt"
    /\ trim(line) # <<>>
    /\ ~starts_with(trim(line), ":")
    /\ LET pushed == push_input(state, trim(line))
           counted == count_tokens_ctx(pushed.context)
       IN  IF counted.overflow /\ overflow_checks
           THEN Exit("overflow_panic")
           ELSE IF ~created.ok
           THEN Exit("request_error")
           ELSE /\ state' = [state EXCEPT !.context = pushed.context]
                /\ input' = pushed.input
                /\ input_tokens' = counted.sum
                /\ request' = [model |-> state.model,
                               max_tokens |-> state.max_tokens,
                               messages |-> convert_context(pushed.context)]
                /\ stream' = created.stream
                /\ response_save' = <<>>
                /\ pc' = "streaming"
                /\ summary' = NoSummary
                /\ received' = <<>>
                /\ out' = <<>>
                /\ hist' = Append(hist, User(pushed.input))
                /\ turn' = [line |-> line, carry |-> state.auto_pipe]
                /\ turns' = turns + 1
                /\ UNCHANGED exit_cause

(* A stream loop that returns the error of an error fragment from main. *)
Fragment_error_propagated(io) ==
    /\ pc = "streaming"
    /\ stream # <<>>
    /\ LET frag == Head(stream)
       IN  IF ~frag.ok
           THEN Exit("stream_error")
           ELSE IF io = "write_err" /\ write_fragment(out, frag) # out
           THEN Exit("write_panic")
           ELSE IF io = "flush_err"
           THEN Exit("io_error")
           ELSE /\ response_save' = accumulate(response_save, frag)
                /\ out' = write_fragment(out, frag)
                /\ stream' = Tail(stream)
                /\ received' = Append(received, frag)
                /\ UNCHANGED <<pc, state, input, input_tokens, request,
                               summary, exit_cause, hist, turn, turns>>

(* Lines 93-108: stream.next() yields a fragment.  io is what the terminal *)
(* did: a failed write! panics in unwrap, a failed flush returns from main. *)
Fragment(io) ==
    /\ pc = "streaming"
    /\ stream # <<>>
    /\ LET frag == Head(stream)
       IN  IF io = "write_err" /\ write_fragment(out, frag) # out
           THEN Exit("write_panic")
           ELSE IF io = "flush_err"
           THEN Exit("io_error")
           ELSE /\ response_save' = accumulate(response_save, frag)
                /\ out' = write_fragment(out, frag)
                /\ stream' = Tail(stream)
                /\ received' = Append(received, frag)
                /\ UNCHANGED <<pc, state, input, input_tokens, request,
                               summary, exit_cause, hist, turn, turns>>

(* An end of stream that stores no Assistant turn for an empty response. *)
EndOfStream_skipping_empty(overflow_checks) ==
    /\ pc = "streaming"
    /\ stream = <<>>
    /\ LET response_tokens == count_tokens(response_save)
           pushed == IF response_save = <<>>
                     THEN state
                     ELSE [state EXCEPT
                               !.context = Append(@, Assistant(response_save))]
           price == calc_price(input_tokens, response_tokens, pushed)
       IN  IF input_tokens + response_tokens >= U16 /\ overflow_checks
           THEN Exit("overflow_panic")
           ELSE /\ state' = pushed
                /\ summary' = [prompt |-> input_tokens,
                               completion |-> response_tokens,
                               total |-> (input_tokens + response_tokens) % U16,
                               price |-> price]
                /\ pc' = "prompt"
                /\ hist' = Append(hist, Assistant(response_save))
                /\ input' = <<>>
                /\ input_tokens' = 0
                /\ request' = NoRequest
                /\ response_save' = <<>>
                /\ received' = <<>>
                /\ out' = <<>>
                /\ UNCHANGED <<stream, exit_cause, turn, turns>>

(* Lines 93 and 109-123: stream.next() yields None. *)
EndOfStream(overflow_checks) ==
    /\ pc = "streaming"
    /\ stream = <<>>
    /\ LET response_tokens == count_tokens(response_save)
           pushed == [state EXCEPT !.context = Append(@, Assistant(response_save))]
           price == calc_price(input_tokens, response_tokens, pushed)
       IN  IF input_tokens + response_tokens >= U16 /\ overflow_checks
           THEN Exit("overflow_panic")
           ELSE /\ state' = pushed
                /\ summary' = [prompt |-> input_tokens,
                               completion |-> response_tokens,
                               total |-> (input_tokens + response_tokens) % U16,
                               price |-> price]
                /\ pc' = "prompt"
                /\ hist' = Append(hist, Assistant(response_save))
                /\ input' = <<>>
                /\ input_tokens' = 0
                /\ request' = NoRequest
                /\ response_save' = <<>>
                /\ received' = <<>>
                /\ out' = <<>>
                /\ UNCHANGED <<stream, exit_cause, turn, turns>>

(* Line 61: the step has read `line`; it is kept when the exploration     *)
(* traces what was read.                                                   *)
Trace(line, traced) ==
    /\ read_line' = IF traced THEN line ELSE <<>>
    /\ UNCHANGED price_f64

(* A step that reads nothing. *)
KeepTrace ==
    /\ read_line' = IF pc' = "exited" THEN <<>> ELSE read_line
    /\ UNCHANGED price_f64

(* The loop of main, for the lines the user may type, the fragments the   *)
(* capability may yield, the bounds of the exploration and whether the    *)
(* lines read are traced.                                                  *)
Loop(lines, frags, max_turns, max_frags, traced) ==
    \/ \E key_set \in BOOLEAN : Startup(key_set) /\ KeepTrace
    \/ PromptIOError /\ KeepTrace
    \/ \E line \in lines : EmptyInput(line) /\ Trace(line, traced)
    \/ \E line \in lines : Command(line) /\ Trace(line, traced)
    \/ /\ turns < max_turns
       /\ \E line \in lines, c \in BOOLEAN, created \in CreateResults(frags, max_frags) :
              TurnStart(line, c, created) /\ Trace(line, traced)
    \/ \E io \in IOResults : Fragment(io) /\ KeepTrace
    \/ \E c \in BOOLEAN : EndOfStream(c) /\ KeepTrace

(* Sessions of several turns with short streams. *)
Next == Loop(Lines, SessionFragments, MaxTurns, MaxTurnFragments, FALSE)

Spec == Init /\ [][Next]_vars

(* Sessions of few turns with long streams. *)
NextStream == Loop(StreamLines, Fragments, MaxStreamTurns, MaxFragments, FALSE)

SpecStream == Init /\ [][NextStream]_vars

(* Sessions of few turns in which every spelling of every command is      *)
(* typed, with the lines read traced.                                      *)
NextCommands ==
    Loop(PromptLines, SessionFragments, MaxCommandTurns, MaxTurnFragments, TRUE)

SpecCommands == Init /\ [][NextCommands]_vars

----------------------------------------------------------------------------
(* The accounting of one turn on its own: lines 80 and 111-121 applied to *)
(* a context, a model and a response of any content.                      *)

Models == {GPT35, GPT4, GPT4T}

AccountTexts == { <<>>, <<"a">>, <<"W">> }

AccountTurns ==
    {User(t) : t \in AccountTexts} \cup {Assistant(t) : t \in AccountTexts}

AccountContexts == SeqsUpTo(AccountTurns, MaxContextLen)

AccountResponses == { <<>>, <<"H", "e", "l">>, <<"W">> }

InitAccounting ==
    /\ pc = "counting"
    /\ state \in {[InitState EXCEPT !.model = m, !.context = c] :
                      m \in Models, c \in AccountContexts}
    /\ response_save \in AccountResponses
    /\ input = <<>>
    /\ input_tokens = 0
    /\ request = NoRequest
    /\ stream = <<>>
    /\ summary = NoSummary
    /\ exit_cause = "none"
    /\ received = <<>>
    /\ out = <<>>
    /\ hist = <<>>
    /\ turn = NoTurn
    /\ turns = 0
    /\ read_line = <<>>
    /\ price_f64 = F64Zero

(* Line 80: input_tokens = count_tokens_ctx(state.context.clone()). *)
CountContext(overflow_checks) ==
    /\ pc = "counting"
    /\ LET counted == count_tokens_ctx(state.context)
       IN  IF counted.overflow /\ overflow_checks
           THEN Exit("overflow_panic")
           ELSE /\ input_tokens' = counted.sum
                /\ pc' = "pricing"
                /\ UNCHANGED <<state, input, request, stream, response_save,
                               summary, exit_cause, received, out, hist, turn,
                               turns>>
    /\ UNCHANGED <<read_line, price_f64>>

(* Lines 111-121: the response is counted and the usage line printed. *)
Price(overflow_checks) ==
    /\ pc = "pricing"
    /\ LET response_tokens == count_tokens(response_save)
       IN  IF input_tokens + response_tokens >= U16 /\ overflow_checks
           THEN Exit("overflow_panic") /\ UNCHANGED price_f64
           ELSE /\ price_f64' = calc_price_f64(input_tokens, response_tokens, state)
                /\ summary' = [prompt |-> input_tokens,
                               completion |-> response_tokens,
                               total |-> (input_tokens + response_tokens) % U16,
                               price |-> calc_price(input_tokens,
                                                    response_tokens, state)]
                /\ pc' = "priced"
                /\ UNCHANGED <<state, input, input_tokens, request, stream,
                               response_save, exit_cause, received, out, hist,
                               turn, turns>>
    /\ UNCHANGED read_line

NextAccounting ==
    \/ \E c \in BOOLEAN : CountContext(c)
    \/ \E c \in BOOLEAN : Price(c)

SpecAccounting == InitAccounting /\ [][NextAccounting]_vars

----------------------------------------------------------------------------
(* The properties checked. *)

Marked(l) == starts_with(trim(l), "|")

Unmarked(l) == IF Marked(l) THEN Tail(trim(l)) ELSE trim(l)

UserMessage(text) == [role |-> "user", content |-> text]

IsTurnStart == pc = "prompt" /\ pc' = "streaming"

IsEndOfStream == pc = "streaming" /\ pc' = "prompt"

NumAssistant(h) == Cardinality({i \in 1..Len(h) : h[i].role = "Assistant"})

RECURSIVE ChoicesText(_)
ChoicesText(choices) ==
    IF choices = <<>>
    THEN <<>>
    ELSE (IF Head(choices).some THEN Head(choices).text ELSE <<>>)
             \o ChoicesText(Tail(choices))

(* The content of the content-carrying fragments, in order. *)
RECURSIVE ContentOf(_)
ContentOf(frags) ==
    IF frags = <<>>
    THEN <<>>
    ELSE (IF Head(frags).ok THEN ChoicesText(Head(frags).choices) ELSE <<>>)
             \o ContentOf(Tail(frags))

RECURSIVE ChoicesItems(_)
ChoicesItems(choices) ==
    IF choices = <<>>
    THEN <<>>
    ELSE (IF Head(choices).some THEN <<ContentItem(Head(choices).text)>> ELSE <<>>)
             \o ChoicesItems(Tail(choices))

(* What one fragment puts on the terminal. *)
ItemsOf(frag) == IF frag.ok THEN ChoicesItems(frag.choices) ELSE <<ErrorItem>>

RECURSIVE ItemsOfAll(_)
ItemsOfAll(frags) ==
    IF frags = <<>> THEN <<>> ELSE ItemsOf(Head(frags)) \o ItemsOfAll(Tail(frags))

(* C1: a line without marker, read while auto_pipe is false, is sent as   *)
(* the single turn User(line trimmed), whatever came before, and when its *)
(* stream ends the context is exactly that turn and the Assistant reply.  *)
C1_PlainTurnSendsOnlyInput ==
    [][ /\ (IsTurnStart /\ ~state.auto_pipe /\ ~Marked(turn'.line))
            => /\ request'.messages = <<UserMessage(trim(turn'.line))>>
               /\ state'.context = <<User(trim(turn'.line))>>
        /\ (IsEndOfStream /\ ~turn.carry /\ ~Marked(turn.line))
            => state'.context =
                   <<User(trim(turn.line)), Assistant(response_save)>>
      ]_vars

C1_Witness ==
    /\ pc = "prompt"
    /\ ~turn.carry
    /\ ~Marked(turn.line)
    /\ Len(hist) = 4
    /\ hist[1] = User(<<"a">>)
    /\ state.context = <<User(<<"b">>), Assistant(<<"H", "e", "l">>)>>

(* C2 as claimed: a turn read while auto_pipe is true sends every turn of *)
(* the session so far followed by the new User turn, and the context      *)
(* grows by two turns in the round.                                       *)
C2_CarrySendsFullHistory ==
    [][ /\ (IsTurnStart /\ state.auto_pipe)
            => /\ request'.messages =
                      convert_context(Append(hist, User(Unmarked(turn'.line))))
               /\ Len(state'.context) = Len(state.context) + 1
        /\ (IsEndOfStream /\ turn.carry)
            => Len(state'.context) = Len(state.context) + 1
      ]_vars

(* C2 as amended: a turn read while auto_pipe is true sends the context   *)
(* stored at the prompt followed by the new User turn; that is the latest *)
(* part of the session's history, and the whole of it when no earlier     *)
(* turn has cleared the context; when the stream is exhausted the context *)
(* is that sequence and the Assistant reply.                              *)
C2_CarrySendsStoredContext ==
    [][ /\ (IsTurnStart /\ state.auto_pipe)
            => /\ state'.context =
                      Append(state.context, User(Unmarked(turn'.line)))
               /\ request'.messages = convert_context(state'.context)
               /\ state'.context =
                      SubSeq(hist', Len(hist') - Len(state'.context) + 1, Len(hist'))
               /\ (Len(state.context) = Len(hist)
                      => request'.messages = convert_context(hist'))
        /\ (IsEndOfStream /\ turn.carry)
            => state'.context = Append(state.context, Assistant(response_save))
      ]_vars

C2_Witness ==
    /\ pc = "streaming"
    /\ turn.carry
    /\ Len(hist) = 5
    /\ Len(request.messages) = 3
    /\ request.messages[3] = UserMessage(input)

(* C3: with auto_pipe false a marked line keeps the stored context as a   *)
(* prefix and appends User(the line less its first marker); the line      *)
(* after it, unmarked and still with auto_pipe false, is sent alone.      *)
C3_MarkerKeepsContextOnce ==
    [][ /\ (IsTurnStart /\ ~state.auto_pipe /\ Marked(turn'.line))
            => /\ state'.context =
                      Append(state.context, User(Tail(trim(turn'.line))))
               /\ request'.messages = convert_context(state'.context)
        /\ (IsTurnStart /\ ~state.auto_pipe /\ turns > 0 /\ Marked(turn.line)
                /\ ~Marked(turn'.line))
            => /\ request'.messages = <<UserMessage(trim(turn'.line))>>
               /\ state'.context = <<User(trim(turn'.line))>>
      ]_vars

C3_Witness ==
    /\ pc = "prompt"
    /\ ~state.auto_pipe
    /\ ~turn.carry
    /\ turn.line = <<"|", "a", "\n">>
    /\ Len(state.context) = 4
    /\ state.context[1] = User(<<"b">>)
    /\ state.context[3] = User(<<"a">>)

(* C4: a command line changes neither the context nor the history and    *)
(* issues no request: every step that stays at the prompt, which is what  *)
(* every command but quit does, leaves the context, the request and the   *)
(* number of turns started as they were, also when it toggles auto_pipe.  *)
C4_CommandsLeaveContext ==
    [][ (pc = "prompt" /\ pc' = "prompt")
            => /\ state'.context = state.context
               /\ request' = NoRequest
               /\ turns' = turns
               /\ hist' = hist
      ]_vars

C4_Witness ==
    /\ pc = "prompt"
    /\ state.auto_pipe
    /\ ~turn.carry
    /\ state.model = GPT4T
    /\ state.context = <<User(<<"a">>), Assistant(<<"H", "e", "l">>)>>

(* C5: while a stream is read response_save is the concatenation, in      *)
(* receipt order, of the contents received, error fragments adding        *)
(* nothing, and at the end of the stream that text is the Assistant turn. *)
C5_AccumulatedIsConcatenation ==
    [][ /\ pc = "streaming" => response_save = ContentOf(received)
        /\ IsEndOfStream
            => /\ stream = <<>>
               /\ state'.context[Len(state'.context)] =
                      Assistant(ContentOf(received))
      ]_vars

C5_Witness ==
    /\ pc = "streaming"
    /\ received = <<Hel, ErrFragment, Lo>>
    /\ stream = <<>>
    /\ response_save = <<"H", "e", "l", "l", "o">>

(* C6: what the stream loop has written is, item for item and in order,   *)
(* what the fragments received so far call for, and each fragment's items *)
(* are added after everything written before it.                          *)
C6_OutputInReceiptOrder ==
    [][ /\ pc = "streaming" => out = ItemsOfAll(received)
        /\ (pc = "streaming" /\ pc' = "streaming")
            => /\ received' = Append(received, Head(stream))
               /\ out' = out \o ItemsOf(Head(stream))
      ]_vars

C6_Witness ==
    /\ pc = "streaming"
    /\ out = <<ContentItem(<<"H", "e", "l">>), ErrorItem,
               ContentItem(<<"l">>), ContentItem(<<"o">>)>>

(* C7: an error fragment leaves the loop streaming with response_save and *)
(* the state as they were; the loop goes back to the prompt only when the *)
(* stream is exhausted, pushing one Assistant turn with response_save;    *)
(* and the process ends while streaming only on a terminal failure or an  *)
(* integer overflow, never on an error fragment.                          *)
C7_ErrorFragmentDoesNotAbort ==
    [][ /\ (pc = "streaming" /\ stream # <<>> /\ ~Head(stream).ok
                /\ pc' # "exited")
            => /\ pc' = "streaming"
               /\ stream' = Tail(stream)
               /\ response_save' = response_save
               /\ state' = state
        /\ IsEndOfStream
            => /\ stream = <<>>
               /\ state'.context = Append(state.context, Assistant(response_save))
               /\ hist' = Append(hist, Assistant(response_save))
        /\ (pc = "streaming" /\ pc' = "exited")
            => exit_cause' \in {"io_error", "write_panic", "overflow_panic"}
      ]_vars

C7_Witness ==
    /\ pc = "streaming"
    /\ received = <<Hel, ErrFragment>>
    /\ stream = <<Lo>>
    /\ response_save = <<"H", "e", "l">>

(* C8: a failure of create_stream does not end the process. *)
C8_RequestFailureKeepsSession ==
    ~(pc = "exited" /\ exit_cause = "request_error")

(* C9: after startup the process ends only by a quit command. *)
C9_OnlyQuitEnds ==
    pc = "exited" => exit_cause \in {"no_key", "quit"}

(* C10: a request is in flight exactly while the loop is streaming, never *)
(* more than one; while it is, no line is read, no turn is started and    *)
(* model, max_tokens and auto_pipe stay as they are, until the stream is  *)
(* exhausted, the Assistant turn is pushed and the price is computed for  *)
(* the model the request was issued with.                                 *)
C10_TurnsAlternateWithInput ==
    [][ /\ (pc = "streaming") <=> (request # NoRequest)
        /\ turns - NumAssistant(hist) = (IF pc = "streaming" THEN 1 ELSE 0)
        /\ (pc = "streaming" /\ pc' # "exited")
            => /\ turn' = turn
               /\ turns' = turns
               /\ state'.model = state.model
               /\ state'.max_tokens = state.max_tokens
               /\ state'.auto_pipe = state.auto_pipe
               /\ \/ pc' = "streaming" /\ request' = request /\ state' = state
                  \/ /\ pc' = "prompt"
                     /\ stream = <<>>
                     /\ request' = NoRequest
                     /\ state'.context =
                            Append(state.context, Assistant(response_save))
                     /\ summary'.price =
                            calc_price(summary'.prompt, summary'.completion,
                                       [model |-> request.model])
      ]_vars

C10_Witness ==
    /\ pc = "streaming"
    /\ turns = 2
    /\ state.auto_pipe
    /\ state.model = GPT4T
    /\ Len(received) = 1
    /\ Len(request.messages) = 3

(* C11: a line that is empty or only whitespace changes nothing: the step *)
(* that reads it leaves model, max_tokens, auto_pipe and the context as   *)
(* they were, issues no request, starts no turn and is back at the prompt. *)
C11_EmptyLineChangesNothing ==
    [][ (pc = "prompt" /\ read_line' \in BlankLines)
            => /\ trim(read_line') = <<>>
               /\ state' = state
               /\ request' = NoRequest
               /\ turns' = turns
               /\ hist' = hist
               /\ pc' = "prompt"
      ]_vars

C11_Witness ==
    /\ pc = "prompt"
    /\ read_line = <<" ", "\t", "\n">>
    /\ state.auto_pipe
    /\ state.model = GPT4
    /\ state.context = <<User(<<"a">>), Assistant(<<"H", "e", "l">>)>>

(* The commands, each by its alias and its long name. *)
Commands ==
    { <<CmdQ, CmdQuit>>, <<CmdC, CmdContext>>, <<CmdM, CmdModel>>,
      <<CmdH, CmdHelp>> }

(* Every way of typing a command with an argument: by either name, in any *)
(* of the spellings, the argument in lower or upper case.                  *)
WaysToType(cmd, arg) ==
    SpelledLines(cmd[1], cmd[2], {arg, to_uppercase(arg)})

(* For a typed command line, the command and the argument it spells. *)
TypedBy ==
    [line \in QuitLines \cup ContextLines \cup ModelLines \cup HelpLines |->
        CHOOSE p \in Commands \X (ModelCodes \cup NoModelCodes) :
            line \in WaysToType(p[1], p[2])]

(* C12: a command typed by its alias or its long name, in any spelling of *)
(* upper and lower case, with the argument in either case, has the        *)
(* outcome of its alias typed in lower case with the lower-case argument: *)
(* the same AppState at the prompt, or the end of the process; every      *)
(* spelling of quit ends the process and every spelling of model 4 sets   *)
(* gpt-4.                                                                  *)
C12_SpellingsAreEquivalent ==
    [][ (pc = "prompt" /\ read_line' \in DOMAIN TypedBy)
            => LET p == TypedBy[read_line']
                   r == parse_command(trim(SpelledLine(p[1][1], p[2])), state)
               IN  /\ IF r.exit
                      THEN pc' = "exited" /\ exit_cause' = "quit"
                      ELSE pc' = "prompt" /\ state' = r.state
                   /\ p[1] = <<CmdQ, CmdQuit>> => pc' = "exited"
                   /\ (p[1] = <<CmdM, CmdModel>> /\ p[2] = <<"4">>)
                          => state'.model = GPT4
      ]_vars

C12_Witness ==
    /\ pc = "prompt"
    /\ read_line = <<":", "M", "O", "D", "E", "L", " ", "4", "T", "\n">>
    /\ state.model = GPT4T
    /\ state.auto_pipe
    /\ Len(state.context) = 2

(* Command lines that name no command, or the model command with an       *)
(* argument that is missing or no model code.                             *)
BadCommandLines == UnknownLines \cup SpelledLines(CmdM, CmdModel, NoModelCodes)

(* C13: a line that names no command, and a model command whose argument  *)
(* is missing or none of 3, 4 and 4t, leaves model, max_tokens, auto_pipe *)
(* and the context as they were, issues no request, does not end the      *)
(* process and leaves main at the prompt.                                 *)
C13_BadCommandsChangeNothing ==
    [][ (pc = "prompt" /\ read_line' \in BadCommandLines)
            => /\ state' = state
               /\ pc' = "prompt"
               /\ exit_cause' = "none"
               /\ request' = NoRequest
               /\ turns' = turns
               /\ hist' = hist
      ]_vars

C13_Witness ==
    /\ pc = "prompt"
    /\ read_line = <<":", "M", "o", "d", "e", "l", " ", "5", "\n">>
    /\ state.model = GPT4T
    /\ state.auto_pipe
    /\ Len(state.context) = 2

(* The step reads a context command. *)
ReadsContextCommand == pc = "prompt" /\ read_line' \in ContextLines

(* C14: auto_pipe is false when the session starts; a context command     *)
(* flips it and changes nothing else, so that the same command read       *)
(* again restores the AppState; no other step of a running process        *)
(* changes it; and a turn started while it is true keeps the stored       *)
(* context in front of the new User turn, as does the end of its stream.  *)
C14_CarryFlagPersists ==
    [][ /\ pc = "start" => ~state.auto_pipe
        /\ ReadsContextCommand
            => /\ pc' = "prompt"
               /\ state' = [state EXCEPT !.auto_pipe = ~state.auto_pipe]
               /\ parse_command(trim(read_line'), state').state = state
        /\ (~ReadsContextCommand /\ pc' # "exited")
            => state'.auto_pipe = state.auto_pipe
        /\ ((IsTurnStart \/ IsEndOfStream) /\ state.auto_pipe)
            => /\ Len(state'.context) = Len(state.context) + 1
               /\ SubSeq(state'.context, 1, Len(state.context)) = state.context
      ]_vars

C14_Witness ==
    /\ pc = "prompt"
    /\ state.auto_pipe
    /\ turn.carry
    /\ turns = 2
    /\ read_line = <<":", "x", "\n">>
    /\ Len(state.context) = 4
    /\ state.model = GPT4

(* C15: the count of a context is the arithmetic sum of the counts of its *)
(* turns' texts, whatever its length, its total, the order and the roles  *)
(* of its turns, and the total reported is the sum of the prompt and the  *)
(* completion tokens; neither computation ends the process.               *)
C15_CountIsArithmeticSum ==
    [][ /\ pc = "counting"
            => /\ pc' = "pricing"
               /\ input_tokens' = SumTokens(state.context)
        /\ pc = "pricing"
            => /\ pc' = "priced"
               /\ summary'.total = summary'.prompt + summary'.completion
      ]_vars

(* The token counts a count is split into: the small ones and one block. *)
Parts == (0..MaxPart) \cup {BlockTokens}

(* C16 as stated: the f64 price of a turn is the sum of the f64 prices of *)
(* the parts of its prompt tokens, and of the parts of its completion     *)
(* tokens, for every model.                                               *)
C16_PriceIsLinear ==
    pc = "priced"
        => LET i == summary.prompt
               o == summary.completion
           IN  /\ \A a \in Parts : a <= i
                      => price_f64 = f64_add(calc_price_f64(a, o, state),
                                             calc_price_f64(i - a, 0, state))
               /\ \A c \in Parts : c <= o
                      => price_f64 = f64_add(calc_price_f64(i, c, state),
                                             calc_price_f64(0, o - c, state))

(* C16 amended: for each of the three models the price as printed, with   *)
(* five decimals, is exactly prompt * rate_in + completion * rate_out, and *)
(* as printed it is the sum of the printed prices of the parts of either  *)
(* token count.                                                           *)
C16_PriceIsLinearAsPrinted ==
    pc = "priced"
        => LET i == summary.prompt
               o == summary.completion
               rate == IF state.model = GPT35 THEN PRICE_3
                       ELSE IF state.model = GPT4 THEN PRICE_4
                       ELSE PRICE_4T
           IN  /\ state.model \in Models
               /\ price_f64 = f64_add(f64_mul(f64_from(i), calc_price_f64(1, 0, state)),
                                      f64_mul(f64_from(o), calc_price_f64(0, 1, state)))
               /\ Decimals5(price_f64) = 10 * (i * rate[1] + o * rate[2])
               /\ summary.price = i * rate[1] + o * rate[2]
               /\ \A a \in Parts : a <= i
                      => Decimals5(price_f64)
                             = Decimals5(calc_price_f64(a, o, state))
                                   + Decimals5(calc_price_f64(i - a, 0, state))
               /\ \A c \in Parts : c <= o
                      => Decimals5(price_f64)
                             = Decimals5(calc_price_f64(i, c, state))
                                   + Decimals5(calc_price_f64(0, o - c, state))

C16_Witness ==
    /\ pc = "priced"
    /\ state.model = GPT35
    /\ summary.prompt = 2
    /\ summary.completion = 3
    /\ price_f64 # f64_add(calc_price_f64(1, 3, state),
                           calc_price_f64(1, 0, state))
    /\ Decimals5(price_f64) = 80

(* C17: the messages of a request are the context stored when it is       *)
(* issued, turn for turn in the same order with the same roles and texts, *)
(* and the request carries the model and max_tokens of that moment.       *)
C17_RequestIsContextInOrder ==
    [][ IsTurnStart
            => /\ Len(request'.messages) = Len(state'.context)
               /\ \A i \in 1..Len(state'.context) :
                      /\ request'.messages[i].content = state'.context[i].text
                      /\ state'.context[i].role \in {"User", "Assistant"}
                      /\ state'.context[i].role = "User"
                             <=> request'.messages[i].role = "user"
                      /\ state'.context[i].role = "Assistant"
                             <=> request'.messages[i].role = "assistant"
               /\ request'.model = state.model
               /\ request'.max_tokens = state.max_tokens
               /\ state'.model = state.model
               /\ state'.max_tokens = state.max_tokens
      ]_vars

C17_Witness ==
    /\ pc = "streaming"
    /\ request.model = GPT4T
    /\ request.max_tokens = DefaultMaxTokens
    /\ Len(state.context) = 5
    /\ Len(request.messages) = 5
    /\ request.messages[1] = [role |-> "user", content |-> <<"b">>]
    /\ request.messages[2].role = "assistant"
    /\ request.messages[3] = [role |-> "user", content |-> <<"a">>]
    /\ request.messages[4] = request.messages[2]
    /\ request.messages[5] = request.messages[3]

(* C18: no User turn with an empty text is in the context or in the       *)
(* messages of a request, also after a line that is the marker alone.     *)
C18_NoEmptyUserTurn ==
    /\ \A i \in 1..Len(state.context) :
           state.context[i].role = "User" => state.context[i].text # <<>>
    /\ \A i \in 1..Len(request.messages) :
           request.messages[i].role = "user"
               => request.messages[i].content # <<>>

(* C19: in every state the session's model is one of the three known      *)
(* names, whatever model commands were read, a request names one of them, *)
(* and the price of a turn is never the value calc_price gives for an     *)
(* unknown model.                                                         *)
C19_ModelIsKnown ==
    /\ state.model \in Models
    /\ request # NoRequest => request.model \in Models
    /\ summary.price # UnknownPrice
    /\ calc_price(input_tokens, count_tokens(response_save), state) # UnknownPrice

C19_Witness ==
    /\ pc = "prompt"
    /\ read_line \in SpelledLines(CmdM, CmdModel, NoModelCodes)
    /\ state.model = GPT4T
    /\ turns = 1
    /\ Len(state.context) = 2
    /\ hist = state.context
    /\ state.context[2].text # <<>>
    /\ calc_price(count_tokens(state.context[1].text),
                  count_tokens(state.context[2].text), state)
           = PRICE_4T[1] + 3 * PRICE_4T[2]

Alternates(roles, first, second) ==
    \A i \in 1..Len(roles) : roles[i] = IF i % 2 = 1 THEN first ELSE second

(* C20: at the prompt the stored context is empty or of even length and   *)
(* alternates User, Assistant from a User turn to an Assistant turn; the  *)
(* messages of a request are of odd length, alternate in the same way and *)
(* end with the new User turn.                                            *)
C20_ContextAlternates ==
    /\ pc = "prompt"
           => /\ Len(state.context) % 2 = 0
              /\ Alternates([i \in 1..Len(state.context) |-> state.context[i].role],
                            "User", "Assistant")
    /\ pc = "streaming"
           => /\ Len(request.messages) % 2 = 1
              /\ Alternates([i \in 1..Len(request.messages) |->
                                request.messages[i].role],
                            "user", "assistant")
              /\ request.messages[Len(request.messages)]
                     = [role |-> "user", content |-> input]
              /\ Len(state.context) = Len(request.messages)

C20_Witness ==
    /\ pc = "prompt"
    /\ Len(state.context) = 6
    /\ state.context[5] = User(<<"b">>)
    /\ state.context[6] = Assistant(<<>>)
    /\ state.context[2] = Assistant(<<"H", "e", "l">>)
    /\ ~state.auto_pipe

====
